---- MODULE Spec2Model ----
(***************************************************************************)
(* A model of cppconnections.hpp (version 1.1.0): connection, signal,     *)
(* scoped_connection and the free functions.  A signal is a fixed array   *)
(* of connection slots plus the `active` flag; fire() is modelled as the  *)
(* loop it is, one slot per step, with a call stack because a forwarding  *)
(* connection calls fire() on its target from inside the loop.  A         *)
(* scoped_connection is a pointer to a slot, or null.                     *)
(***************************************************************************)
EXTENDS Integers, Sequences, FiniteSets, TLC

\* ------------------------------------------------------------------ bounds

\* Size of the slot array (128 in the header unless the embedder defines it).
CPP_CONNECTIONS_MAX_CONNECTIONS == 2

\* Deepest chain of nested fire() calls followed before the run is cut off
\* as a stack overflow.
MaxDepth == 3

\* Number of calls the client program makes on the signals.
MaxOps == 4

\* Number of calls on the signal that the callbacks of one fire() make.
MaxCallbackOps == 2

\* ------------------------------------------------------------------ values

Signals == {"A", "B"}

Slots == 0 .. (CPP_CONNECTIONS_MAX_CONNECTIONS - 1)

NULL == "nullptr"

\* Function pointers a client passes: two handlers and the null pointer.
Callbacks == {"f", "g"}

\* The function pointer the captureless lambda of forward_to converts to.
Forwarder == "forwarder"

\* A handler of the client that calls operations of the signal firing it.
Reentrant == "r"

Contexts == {"c1", "c2"}

\* The (function, context) pairs the client registers with.
ConnectInputs ==
    {<<"f", "c1">>, <<"g", "c2">>, <<NULL, "c1">>}

\* The pairs registered where two signals are linked.
ForwardInputs == {<<"g", "c2">>}

\* The pair registered where handlers call the signal that fires them.
ReentrantInputs == {<<Reentrant, "c1">>}

\* The pair registered where connections are bound to scoped_connection objects.
ScopedInputs == {<<"f", "c1">>}

\* Arguments the client fires with (one integer argument).
Arguments == {5, 7}

NoSlot == -1

\* Return value of an operation that returns void.
Void == <<"void">>

\* The null connection pointer; a handle is <<signal, slot>>.
NullHandle == <<>>

\* What the storage of a slot holds before the first registration writes it.
\* The constructor only calls disconnect() on every slot, so once, callback
\* and context are left indeterminate; no operation modelled here reads them
\* while connected is false, and the value chosen (a one-shot registration of
\* f) is one that would show if an operation did.
Uninitialized ==
    [connected |-> TRUE, once |-> TRUE, callback |-> "f", context |-> "c1"]

\* The scoped_connection objects of the client program.
Wrappers == {"w1", "w2"}

\* The storage of a scoped_connection outside its lifetime.
Destroyed == [live |-> FALSE, conn |-> NullHandle]

\* How a signal came to hold its state: not constructed yet, by signal(),
\* or as the destination of a copy or of a move.
Unbuilt == "unbuilt"
Built == {"signal()", "copy", "move"}

VARIABLES
    active,        \* signal::active, per signal
    connections,   \* signal::connections, per signal: Slots -> connection
    stack,         \* the fire() calls in progress, innermost last
    overflow,      \* the nesting of fire() calls exceeded MaxDepth
    last,          \* the client's latest call: operation, inputs, return value
    log,           \* callbacks invoked since the latest client fire() began
    pre,           \* active, connections, order, vacated when the latest client
                   \* fire() began
    order,         \* per signal: connected slots in order of registration
    vacated,       \* per signal: some registration was deactivated
    discd,         \* per slot: disconnect() ran on the current registration
    onceinv,       \* per slot: invocations of the current one-shot registration
    fresh,         \* per signal: results of connect() while nothing else was called
    issued,        \* handles returned to the client so far
    client,        \* what the client program does: signals it calls, pairs it
                   \* registers, whether its number of calls is limited
    nops,          \* number of client calls so far, where it is limited
    scoped,        \* per scoped_connection: whether it is alive, and its conn
    built,         \* per signal: Unbuilt, or how its state was last written whole
    calls,         \* calls on signals made by callbacks since the latest client
                   \* fire() began
    stale          \* scoped_connection objects whose slot was written by a
                   \* later registration since they took the pointer to it
                   \* (on record until the object is constructed again)

vars == <<active, connections, stack, overflow, last, log, pre, order,
          vacated, discd, onceinv, fresh, issued, client, nops, scoped, built,
          calls, stale>>

\* ------------------------------------------------------- connection (95-148)

\* connection::disconnect
disconnect_conn(c) == [c EXCEPT !.connected = FALSE]

\* ----------------------------------------------------------- pure helpers

\* The slot the scan `for i: if (!connections[i].connected)` stops at.
FirstFree(cs) ==
    IF \E i \in Slots : ~cs[i].connected
    THEN CHOOSE i \in Slots :
            ~cs[i].connected /\ \A j \in Slots : j < i => cs[j].connected
    ELSE NoSlot

\* The slot a successful registration writes.
Populate(function, context, isOnce) ==
    [connected |-> TRUE, once |-> isOnce, callback |-> function, context |-> context]

\* signal::connection_count
connection_count(cs) == Cardinality({i \in Slots : cs[i].connected})

\* signal::max_connections
max_connections == CPP_CONNECTIONS_MAX_CONNECTIONS

Remove(seq, H) == SelectSeq(seq, LAMBDA i : i \notin H)

\* The value of fresh[s] once anything but connect was called on s.
Tainted == <<"tainted">>
\* The value of pre while no fire() is on record.
NoPre == [none |-> TRUE]

\* ------------------------------------------------------ history variables

\* Bookkeeping of one step on signal s: disconnect() ran on the slots H, and
\* slot p (NoSlot if none) was populated by a registration.
History(s, H, p) ==
    LET gone == {i \in H : connections[s][i].connected} IN
    /\ order' = [order EXCEPT ![s] =
                    IF p = NoSlot THEN Remove(@, gone)
                    ELSE Append(Remove(@, gone \cup {p}), p)]
    /\ vacated' = [vacated EXCEPT ![s] = @ \/ gone # {}]
    /\ discd' = [discd EXCEPT ![s] =
                    [i \in Slots |-> IF i = p THEN FALSE
                                     ELSE IF i \in H THEN TRUE ELSE @[i]]]
    /\ onceinv' = [onceinv EXCEPT ![s] =
                    [i \in Slots |-> IF i = p THEN 0 ELSE @[i]]]
    /\ issued' = IF p = NoSlot THEN issued ELSE issued \cup {<<s, p>>}

\* A call the client makes while no fire() is running.
Call(op, s, a, b, ret) ==
    /\ ~overflow
    /\ stack = <<>>
    /\ client.limited => nops < MaxOps
    /\ nops' = IF client.limited THEN nops + 1 ELSE nops
    /\ UNCHANGED client
    /\ last' = [op |-> op, sig |-> s, a |-> a, b |-> b, ret |-> ret]
    /\ UNCHANGED overflow

\* A call of a member function of the constructed signal s.
ClientCall(op, s, a, b, ret) ==
    /\ s \in client.signals
    /\ built[s] \in Built
    /\ Call(op, s, a, b, ret)
    /\ UNCHANGED <<scoped, built>>

\* The record of the latest fire() is dropped when the client calls anything else.
ForgetFire == log' = <<>> /\ pre' = NoPre /\ calls' = <<>>

Handle(s, i) == IF i = NoSlot THEN NullHandle ELSE <<s, i>>

\* The scoped_connection objects alive whose conn points into the slots H of s.
Holders(s, H) ==
    {w \in Wrappers :
        /\ scoped[w].live
        /\ scoped[w].conn # NullHandle
        /\ scoped[w].conn[1] = s
        /\ scoped[w].conn[2] \in H}

\* ------------------------------------------------------ signal: registration

\* connect with the scan ending one slot early (`i < MAX - 1`).
connect_slots_short(cs, function, context) ==
    LET i == FirstFree(cs) IN
    IF i = NoSlot \/ i = CPP_CONNECTIONS_MAX_CONNECTIONS - 1
    THEN [cs |-> cs, slot |-> NoSlot]
    ELSE [cs |-> [cs EXCEPT ![i] = Populate(function, context, FALSE)], slot |-> i]

\* connect scanning from the last slot down.
connect_slots_last(cs, function, context) ==
    IF \A i \in Slots : cs[i].connected THEN [cs |-> cs, slot |-> NoSlot]
    ELSE LET i == CHOOSE k \in Slots :
                     ~cs[k].connected /\ \A j \in Slots : j > k => cs[j].connected
         IN  [cs |-> [cs EXCEPT ![i] = Populate(function, context, FALSE)], slot |-> i]

\* connect that reuses slot 0 when no slot is free.
connect_slots_overwrite(cs, function, context) ==
    LET i == IF FirstFree(cs) = NoSlot THEN 0 ELSE FirstFree(cs) IN
    [cs |-> [cs EXCEPT ![i] = Populate(function, context, FALSE)], slot |-> i]

\* signal::connect: the new slot array and the index returned (NoSlot: nullptr).
connect_slots(cs, function, context) ==
    LET i == FirstFree(cs) IN
    IF i = NoSlot THEN [cs |-> cs, slot |-> NoSlot]
    ELSE [cs |-> [cs EXCEPT ![i] = Populate(function, context, FALSE)], slot |-> i]

\* once that leaves the one-shot flag false, as connect does.
once_slots_persistent(cs, function, context) ==
    LET i == FirstFree(cs) IN
    IF i = NoSlot THEN [cs |-> cs, slot |-> NoSlot]
    ELSE [cs |-> [cs EXCEPT ![i] = Populate(function, context, FALSE)], slot |-> i]

\* signal::once
once_slots(cs, function, context) ==
    LET i == FirstFree(cs) IN
    IF i = NoSlot THEN [cs |-> cs, slot |-> NoSlot]
    ELSE [cs |-> [cs EXCEPT ![i] = Populate(function, context, TRUE)], slot |-> i]

\* signal::forward_to: connect(lambda, target)
forward_to_slots(cs, target) == connect_slots(cs, Forwarder, target)

Register(op, s, function, context, r) ==
    /\ ClientCall(op, s, function, context, Handle(s, r.slot))
    /\ connections' = [connections EXCEPT ![s] = r.cs]
    /\ History(s, {}, r.slot)
    /\ stale' = stale \cup Holders(s, {r.slot})
    /\ ForgetFire
    /\ UNCHANGED <<active, stack>>

connect(s, function, context) ==
    /\ <<function, context>> \in client.inputs
    /\ Register("connect", s, function, context, connect_slots(connections[s], function, context))
    /\ fresh' = [fresh EXCEPT ![s] =
                    IF @ # Tainted /\ Len(@) <= CPP_CONNECTIONS_MAX_CONNECTIONS
                    THEN Append(@, Handle(s, connect_slots(connections[s], function, context).slot))
                    ELSE Tainted]

once(s, function, context) ==
    /\ <<function, context>> \in client.inputs
    /\ Register("once", s, function, context, once_slots(connections[s], function, context))
    /\ fresh' = [fresh EXCEPT ![s] = Tainted]

forward_to(s, target) ==
    /\ built[target] \in Built
    /\ Register("forward_to", s, Forwarder, target, forward_to_slots(connections[s], target))
    /\ fresh' = [fresh EXCEPT ![s] = Tainted]

\* ---------------------------------------------------- signal: disconnection

\* disconnect_all with the loop starting at slot 1.
disconnect_all_hits_skip(cs) == {i \in Slots : i > 0 /\ cs[i].connected}

\* The slots the loop of disconnect_all calls disconnect() on.
disconnect_all_hits(cs) == {i \in Slots : cs[i].connected}

\* disconnect_by_callback without the comparison of the callback.
disconnect_by_callback_hits_any(cs, callback) ==
    {i \in Slots : cs[i].connected}

\* The slots the loop of disconnect_by_callback calls disconnect() on.
disconnect_by_callback_hits(cs, callback) ==
    {i \in Slots : cs[i].connected /\ cs[i].callback = callback}

\* disconnect_by_context without the comparison of the context.
disconnect_by_context_hits_any(cs, context) ==
    {i \in Slots : cs[i].connected}

\* The slots the loop of disconnect_by_context calls disconnect() on.
disconnect_by_context_hits(cs, context) ==
    {i \in Slots : cs[i].connected /\ cs[i].context = context}

\* connections[i].disconnect() for every i in H.
DisconnectSlots(cs, H) ==
    [i \in Slots |-> IF i \in H THEN disconnect_conn(cs[i]) ELSE cs[i]]

Unregister(op, s, a, H) ==
    /\ ClientCall(op, s, a, NULL, Void)
    /\ connections' = [connections EXCEPT ![s] = DisconnectSlots(@, H)]
    /\ History(s, H, NoSlot)
    /\ ForgetFire
    /\ fresh' = [fresh EXCEPT ![s] = Tainted]
    /\ UNCHANGED <<active, stack, stale>>

disconnect_all(s) ==
    Unregister("disconnect_all", s, NULL, disconnect_all_hits(connections[s]))

disconnect_by_callback(s, callback) ==
    Unregister("disconnect_by_callback", s, callback,
               disconnect_by_callback_hits(connections[s], callback))

disconnect_by_context(s, context) ==
    Unregister("disconnect_by_context", s, context,
               disconnect_by_context_hits(connections[s], context))

\* connection::disconnect through a handle the client holds, which is also
\* what the free function disconnect(connection&) does.
disconnect(h) ==
    /\ h \in issued
    /\ Unregister("disconnect", h[1], h[2], {h[2]})

\* ------------------------------------------------- signal: suspend / resume

SetActive(op, s, value) ==
    /\ ClientCall(op, s, NULL, NULL, Void)
    /\ active' = [active EXCEPT ![s] = value]
    /\ ForgetFire
    /\ fresh' = [fresh EXCEPT ![s] = Tainted]
    /\ UNCHANGED <<connections, stack, order, vacated, discd, onceinv, issued, stale>>

\* suspend() that also drops the connections.
suspend_disconnects(s) ==
    /\ ClientCall("suspend", s, NULL, NULL, Void)
    /\ active' = [active EXCEPT ![s] = FALSE]
    /\ connections' = [connections EXCEPT ![s] = DisconnectSlots(@, Slots)]
    /\ History(s, Slots, NoSlot)
    /\ ForgetFire
    /\ fresh' = [fresh EXCEPT ![s] = Tainted]
    /\ UNCHANGED <<stack, stale>>

suspend(s) == SetActive("suspend", s, FALSE)

resume(s) == SetActive("resume", s, TRUE)

\* ------------------------------------------------------------ signal: fire

\* fire() without the test of `active`.
fire_enters_always(isActive) == TRUE

\* `if (!active) return;`: whether fire() goes on to the loop.
fire_enters(isActive) == isActive

\* The loop of fire() testing the callback only.
fire_invokes_unconnected(c) == c.callback # NULL

\* `if (connections[i].connected && connections[i].callback)`
fire_invokes(c) == c.connected /\ c.callback # NULL

\* fire() without the one-shot check.
fire_once_check_never(c) == FALSE

\* fire() disconnecting every slot it has invoked.
fire_once_check_always(c) == TRUE

\* `if (connections[i].once)` after the callback: whether disconnect() is called.
fire_once_check(c) == c.once

\* A callback invoked with a value-initialized argument instead of args.
fire_passes_default(args) == 0

\* The arguments a callback receives from fire(args...).
fire_passes(args) == args

Frame(s, x) == [sig |-> s, i |-> 0, args |-> x]

Top == stack[Len(stack)]

\* The slot indices at which the enclosing fire() calls are waiting.
Path(st) == [k \in 1 .. (Len(st) - 1) |-> st[k].i]

Invocation(s, i, c, x) ==
    [sig |-> s, slot |-> i, callback |-> c.callback, context |-> c.context,
     args |-> fire_passes(x), path |-> Path(stack)]

\* The callback of slot i of frame number d has returned: the one-shot check,
\* then ++i.  st is the stack with frame d on top.
Returned(st) ==
    LET t == st[Len(st)]
        s == t.sig
        i == t.i
        c == connections[s][i]
        H == IF fire_once_check(c) THEN {i} ELSE {}
    IN  /\ connections' = [connections EXCEPT ![s] = DisconnectSlots(@, H)]
        /\ stack' = [st EXCEPT ![Len(st)].i = i + 1]
        /\ order' = [order EXCEPT ![s] = Remove(@, H)]
        /\ vacated' = [vacated EXCEPT ![s] = @ \/ H # {}]
        /\ discd' = [discd EXCEPT ![s][i] = @ \/ H # {}]

\* The client calls s.fire(x).
fire(s, x) ==
    /\ ClientCall("fire", s, x, NULL, Void)
    /\ log' = <<>>
    /\ calls' = <<>>
    /\ pre' = [active |-> active, connections |-> connections,
               order |-> order, vacated |-> vacated]
    /\ stack' = IF fire_enters(active[s]) THEN <<Frame(s, x)>> ELSE <<>>
    /\ fresh' = [fresh EXCEPT ![s] = Tainted]
    /\ UNCHANGED <<active, connections, order, vacated, discd, onceinv, issued, stale>>

\* One iteration of the loop of the innermost fire(): a slot that is skipped.
fire_skip ==
    /\ ~overflow
    /\ stack # <<>>
    /\ Top.i < CPP_CONNECTIONS_MAX_CONNECTIONS
    /\ ~fire_invokes(connections[Top.sig][Top.i])
    /\ stack' = [stack EXCEPT ![Len(stack)].i = @ + 1]
    /\ UNCHANGED <<active, connections, overflow, last, log, pre, order,
                   vacated, discd, onceinv, fresh, issued, client, nops,
                   scoped, built, calls, stale>>

\* One iteration: a client callback is invoked and returns.
fire_callback ==
    /\ ~overflow
    /\ stack # <<>>
    /\ Top.i < CPP_CONNECTIONS_MAX_CONNECTIONS
    /\ LET s == Top.sig
           i == Top.i
           c == connections[s][i]
       IN  /\ fire_invokes(c)
           /\ c.callback # Forwarder
           /\ log' = Append(log, Invocation(s, i, c, Top.args))
           /\ onceinv' = [onceinv EXCEPT ![s][i] = IF c.once /\ @ < 2 THEN @ + 1 ELSE @]
           /\ Returned(stack)
    /\ UNCHANGED <<active, overflow, last, pre, fresh, issued, client, nops,
                   scoped, built, calls, stale>>

\* One iteration: the forwarding lambda is invoked and calls tgt->fire(args...).
fire_forward ==
    /\ ~overflow
    /\ stack # <<>>
    /\ Top.i < CPP_CONNECTIONS_MAX_CONNECTIONS
    /\ LET s == Top.sig
           i == Top.i
           c == connections[s][i]
           tgt == c.context
       IN  /\ fire_invokes(c)
           /\ c.callback = Forwarder
           /\ log' = Append(log, Invocation(s, i, c, Top.args))
           /\ onceinv' = [onceinv EXCEPT ![s][i] = IF c.once /\ @ < 2 THEN @ + 1 ELSE @]
           /\ IF ~fire_enters(active[tgt])
              THEN Returned(stack) /\ UNCHANGED overflow
              ELSE /\ IF Len(stack) < MaxDepth
                      THEN /\ stack' = Append(stack, Frame(tgt, fire_passes(Top.args)))
                           /\ UNCHANGED overflow
                      ELSE /\ overflow' = TRUE
                           /\ UNCHANGED stack
                   /\ UNCHANGED <<connections, order, vacated, discd>>
    /\ UNCHANGED <<active, last, pre, fresh, issued, client, nops, scoped, built, calls, stale>>

\* The loop of the innermost fire() is over: it returns, into the forwarding
\* lambda of the enclosing fire() if there is one, which returns in turn.
fire_return ==
    /\ ~overflow
    /\ stack # <<>>
    /\ Top.i = CPP_CONNECTIONS_MAX_CONNECTIONS
    /\ IF Len(stack) = 1
       THEN /\ stack' = <<>>
            /\ UNCHANGED <<connections, order, vacated, discd>>
       ELSE Returned(SubSeq(stack, 1, Len(stack) - 1))
    /\ UNCHANGED <<active, overflow, last, log, pre, onceinv, fresh, issued, client, nops,
                   scoped, built, calls, stale>>

\* ------------------------------- fire: handlers that call the signal

\* The value of i in the frame of a handler that is running: it sits above
\* the frame of the fire() that invoked it, whose loop waits for its return.
Running == CPP_CONNECTIONS_MAX_CONNECTIONS + 1

Activation(s, x) == [sig |-> s, i |-> Running, args |-> x]

\* The slot whose callback is running.
Caller == stack[Len(stack) - 1].i

\* A handler is running and may call the signal once more.
InCallback ==
    /\ ~overflow
    /\ Len(stack) >= 2
    /\ Top.i = Running
    /\ Len(calls) < MaxCallbackOps

\* A call by the running handler: the slot it is about, whether the slot was
\* connected before it, the slot of the handler, the invocations so far.
CallRecord(op, s, slot) ==
    [op |-> op, sig |-> s, slot |-> slot,
     was |-> slot # NoSlot /\ connections[s][slot].connected,
     by |-> Caller, at |-> Len(log)]

\* One iteration: `connections[i].callback(args..., connections[i].context)`
\* enters a handler that is going to call the signal.
fire_reentrant ==
    /\ ~overflow
    /\ stack # <<>>
    /\ Top.i < CPP_CONNECTIONS_MAX_CONNECTIONS
    /\ LET s == Top.sig
           i == Top.i
           c == connections[s][i]
       IN  /\ fire_invokes(c)
           /\ c.callback = Reentrant
           /\ log' = Append(log, Invocation(s, i, c, Top.args))
           /\ onceinv' = [onceinv EXCEPT ![s][i] = IF c.once /\ @ < 2 THEN @ + 1 ELSE @]
           /\ stack' = Append(stack, Activation(s, fire_passes(Top.args)))
    /\ UNCHANGED <<active, connections, overflow, last, pre, order, vacated, discd,
                   fresh, issued, client, nops, scoped, built, calls, stale>>

\* disconnect() in a handler that leaves the slot connected.
callback_disconnect_ignored(h) ==
    /\ InCallback
    /\ h \in issued
    /\ History(h[1], {h[2]}, NoSlot)
    /\ fresh' = [fresh EXCEPT ![h[1]] = Tainted]
    /\ calls' = Append(calls, CallRecord("disconnect", h[1], h[2]))
    /\ UNCHANGED <<active, connections, stack, overflow, last, log, pre, client, nops,
                   scoped, built, stale>>

\* The running handler calls disconnect() through a handle of the client.
callback_disconnect(h) ==
    /\ InCallback
    /\ h \in issued
    /\ connections' = [connections EXCEPT ![h[1]] = DisconnectSlots(@, {h[2]})]
    /\ History(h[1], {h[2]}, NoSlot)
    /\ fresh' = [fresh EXCEPT ![h[1]] = Tainted]
    /\ calls' = Append(calls, CallRecord("disconnect", h[1], h[2]))
    /\ UNCHANGED <<active, stack, overflow, last, log, pre, client, nops, scoped,
                   built, stale>>

\* The running handler registers with the signal that is firing.
CallbackRegister(op, function, context, r) ==
    LET s == Top.sig IN
    /\ InCallback
    /\ <<function, context>> \in client.inputs
    /\ connections' = [connections EXCEPT ![s] = r.cs]
    /\ History(s, {}, r.slot)
    /\ stale' = stale \cup Holders(s, {r.slot})
    /\ fresh' = [fresh EXCEPT ![s] = Tainted]
    /\ calls' = Append(calls, CallRecord(op, s, r.slot))
    /\ UNCHANGED <<active, stack, overflow, last, log, pre, client, nops, scoped,
                   built>>

callback_connect(function, context) ==
    CallbackRegister("connect", function, context,
                     connect_slots(connections[Top.sig], function, context))

callback_once(function, context) ==
    CallbackRegister("once", function, context,
                     once_slots(connections[Top.sig], function, context))

\* The running handler returns into the loop of fire(): the one-shot check
\* reads connections[i] as it is now.
callback_return ==
    /\ ~overflow
    /\ Len(stack) >= 2
    /\ Top.i = Running
    /\ Returned(SubSeq(stack, 1, Len(stack) - 1))
    /\ UNCHANGED <<active, overflow, last, log, pre, onceinv, fresh, issued, client,
                   nops, scoped, built, calls, stale>>

\* ------------------------------------- signal: construction, copy, move

\* signal(): active(true), disconnect() on every slot of the new object.
signal_default(d) ==
    /\ d \in client.signals
    /\ built[d] = Unbuilt
    /\ Call("signal()", d, NULL, NULL, Void)
    /\ active' = [active EXCEPT ![d] = TRUE]
    /\ connections' = [connections EXCEPT ![d] = [i \in Slots |-> disconnect_conn(@[i])]]
    /\ built' = [built EXCEPT ![d] = "signal()"]
    /\ ForgetFire
    /\ UNCHANGED <<stack, order, vacated, discd, onceinv, fresh, issued, scoped, stale>>

\* A copy that starts active, as signal() does.
copied_active_default(other_active) == TRUE

\* `active(other.active)`, `active = other.active`
copied_active(other_active) == other_active

\* `connections[i] = other.connections[i]`: the member-wise copy of the struct.
copied_connection(c) ==
    [connected |-> c.connected, once |-> c.once, callback |-> c.callback,
     context |-> c.context]

\* `connections[i] = move(other.connections[i])`: connection declares no move
\* assignment, and the implicit one copies the four scalar members.
moved_connection(c) ==
    [connected |-> c.connected, once |-> c.once, callback |-> c.callback,
     context |-> c.context]

\* A move that leaves the active flag of the source as it was.
moved_from_active_kept(other_active) == other_active

\* `other.active = false`
moved_from_active(other_active) == FALSE

\* The signal d takes the flag a and the slots cs, and the signal other is
\* left with the flag b; how: "copy" or "move".
Assigned(op, d, other, how, a, cs, b) ==
    /\ {d, other} \subseteq client.signals
    /\ built[other] \in Built
    /\ Call(op, d, other, NULL, Void)
    /\ ForgetFire
    /\ UNCHANGED <<stack, issued, scoped>>
    /\ IF d = other
       THEN UNCHANGED <<active, connections, built, order, vacated, discd, onceinv, fresh,
                        stale>>
       ELSE /\ stale' = stale \cup Holders(d, Slots)
            /\ active' = [active EXCEPT ![d] = a, ![other] = b]
            /\ connections' = [connections EXCEPT ![d] = cs]
            /\ built' = [built EXCEPT ![d] = how]
            /\ order' = [order EXCEPT ![d] = order[other]]
            /\ vacated' = [vacated EXCEPT ![d] = vacated[other]]
            /\ discd' = [discd EXCEPT ![d] = discd[other]]
            /\ onceinv' = [onceinv EXCEPT ![d] = onceinv[other]]
            /\ fresh' = [fresh EXCEPT ![d] = Tainted,
                                      ![other] = IF how = "move" THEN Tainted ELSE @]

Copied(op, d, other) ==
    Assigned(op, d, other, "copy", copied_active(active[other]),
             [i \in Slots |-> copied_connection(connections[other][i])],
             active[other])

Moved(op, d, other) ==
    Assigned(op, d, other, "move", copied_active(active[other]),
             [i \in Slots |-> moved_connection(connections[other][i])],
             moved_from_active(active[other]))

\* signal(const signal& other)
signal_copy(d, other) ==
    /\ built[d] = Unbuilt
    /\ Copied("signal(const signal&)", d, other)

\* signal::operator=(const signal& other)
signal_copy_assign(d, other) ==
    /\ built[d] \in Built
    /\ Copied("operator=(const signal&)", d, other)

\* signal(signal&& other)
signal_move(d, other) ==
    /\ built[d] = Unbuilt
    /\ Moved("signal(signal&&)", d, other)

\* signal::operator=(signal&& other)
signal_move_assign(d, other) ==
    /\ built[d] \in Built
    /\ Moved("operator=(signal&&)", d, other)

\* ------------------------------------------------ scoped_connection (536-676)

\* conn->disconnect() through the pointer h; nothing with the null pointer.
Dropped(h) ==
    IF h = NullHandle
    THEN UNCHANGED <<connections, order, vacated, discd, onceinv, issued, fresh>>
    ELSE /\ connections' = [connections EXCEPT ![h[1]] = DisconnectSlots(@, {h[2]})]
         /\ History(h[1], {h[2]}, NoSlot)
         /\ fresh' = [fresh EXCEPT ![h[1]] = Tainted]

\* A call on the scoped_connection w that may disconnect through h.
ScopedCall(op, w, b, ret, h) ==
    /\ Call(op, IF h = NullHandle THEN NULL ELSE h[1], w, b, ret)
    /\ Dropped(h)
    /\ ForgetFire
    /\ UNCHANGED <<active, stack, built>>

\* After a step on the scoped_connection objects: those that hold a pointer
\* which one of them held while its slot was written by a later registration,
\* and those destroyed holding such a pointer.
Provenance ==
    stale' = {w \in Wrappers :
                 IF scoped'[w].live
                 THEN /\ scoped'[w].conn # NullHandle
                      /\ \E v \in stale : scoped[v].conn = scoped'[w].conn
                 ELSE w \in stale}

\* The handles held by the scoped_connection objects alive.
Managed == {scoped[w].conn : w \in {v \in Wrappers : scoped[v].live}} \ {NullHandle}

\* scoped_connection() = default
scoped_default(w) ==
    /\ ~scoped[w].live
    /\ ScopedCall("scoped_connection()", w, NullHandle, Void, NullHandle)
    /\ scoped' = [scoped EXCEPT ![w] = [live |-> TRUE, conn |-> NullHandle]]
    /\ Provenance

\* explicit scoped_connection(connection* c): the client wraps a pointer it
\* got from a signal, or the null pointer, and never one that a live
\* scoped_connection already holds.
scoped_connection(w, c) ==
    /\ ~scoped[w].live
    /\ c \in (issued \cup {NullHandle}) \ Managed
    /\ ScopedCall("scoped_connection(c)", w, c, Void, NullHandle)
    /\ scoped' = [scoped EXCEPT ![w] = [live |-> TRUE, conn |-> c]]
    /\ Provenance

\* A destructor left to the compiler: conn is not looked at.
dtor_disconnects_never(conn) == FALSE

\* The destructor with the test of connected inverted.
dtor_disconnects_unconnected(conn) ==
    conn # NullHandle /\ ~connections[conn[1]][conn[2]].connected

\* `if (conn && conn->connected)` in ~scoped_connection
dtor_disconnects(conn) ==
    conn # NullHandle /\ connections[conn[1]][conn[2]].connected

\* ~scoped_connection
scoped_connection_dtor(w) ==
    LET c == scoped[w].conn IN
    /\ scoped[w].live
    /\ ScopedCall("~scoped_connection", w, c, Void,
                  IF dtor_disconnects(c) THEN c ELSE NullHandle)
    /\ scoped' = [scoped EXCEPT ![w] = Destroyed]
    /\ Provenance

\* A move that leaves the pointer in the source.
moved_from_kept(conn) == conn

\* `other.conn = nullptr` in the move operations
moved_from(conn) == NullHandle

\* scoped_connection(scoped_connection&& other)
scoped_move(w, other) ==
    /\ ~scoped[w].live
    /\ scoped[other].live
    /\ ScopedCall("scoped_connection(&&)", w, other, Void, NullHandle)
    /\ scoped' = [scoped EXCEPT ![w] = [live |-> TRUE, conn |-> scoped[other].conn],
                                ![other].conn = moved_from(@)]
    /\ Provenance

\* A move assignment that drops the old pointer without disconnecting.
assign_disconnects_never(conn) == FALSE

\* `if (conn && conn->connected)` in the move assignment
assign_disconnects(conn) ==
    conn # NullHandle /\ connections[conn[1]][conn[2]].connected

\* scoped_connection::operator=(scoped_connection&& other)
scoped_move_assign(w, other) ==
    LET c == scoped[w].conn IN
    /\ scoped[w].live
    /\ scoped[other].live
    /\ ScopedCall("operator=(&&)", w, other, Void,
                  IF w # other /\ assign_disconnects(c) THEN c ELSE NullHandle)
    /\ scoped' = IF w = other THEN scoped
                 ELSE [scoped EXCEPT ![w].conn = scoped[other].conn,
                                     ![other].conn = moved_from(@)]
    /\ Provenance

\* release() that returns the pointer and keeps it.
release_leaves_kept(conn) == conn

\* `conn = nullptr` in release()
release_leaves(conn) == NullHandle

\* scoped_connection::release
release(w) ==
    /\ scoped[w].live
    /\ ScopedCall("release", w, NullHandle, scoped[w].conn, NullHandle)
    /\ scoped' = [scoped EXCEPT ![w].conn = release_leaves(@)]
    /\ Provenance

\* ------------------------------------------------- free functions (693-749)

\* The connection objects the client builds itself to describe a callback:
\* the two flags are whatever the client left in them.
Descriptors ==
    {[connected |-> c, once |-> o, callback |-> in[1], context |-> in[2]] :
        c \in BOOLEAN, o \in BOOLEAN, in \in ConnectInputs}

\* connect(connection, signal) choosing once() for a descriptor flagged once.
free_connect_calls_flag(d) ==
    [once |-> d.once, function |-> d.callback, context |-> d.context]

\* `return signal->connect(connection.callback, connection.context);`
free_connect_calls(d) ==
    [once |-> FALSE, function |-> d.callback, context |-> d.context]

\* `return signal->once(connection.callback, connection.context);`
free_connect_once_calls(d) ==
    [once |-> TRUE, function |-> d.callback, context |-> d.context]

\* A free function hands the descriptor d to a member function of s.
FreeRegister(op, d, s, call) ==
    /\ <<d.callback, d.context>> \in client.inputs
    /\ Register(op, s, d, NULL,
                IF call.once
                THEN once_slots(connections[s], call.function, call.context)
                ELSE connect_slots(connections[s], call.function, call.context))
    /\ fresh' = [fresh EXCEPT ![s] = Tainted]

\* connect(const connection&, signal*)
connect_free(d, s) == FreeRegister("connect(d, s)", d, s, free_connect_calls(d))

\* connect_once(const connection&, signal*)
connect_once(d, s) == FreeRegister("connect_once(d, s)", d, s, free_connect_once_calls(d))

\* forward_to(signal* from, signal* to): `return from->forward_to(to);`
forward_to_free(from, to) ==
    /\ built[to] \in Built
    /\ Register("forward_to(from, to)", from, Forwarder, to,
                forward_to_slots(connections[from], to))
    /\ fresh' = [fresh EXCEPT ![from] = Tainted]

\* disconnect(connection&) on the slot a handle points to: `connection.disconnect();`
disconnect_free(h) ==
    /\ h \in issued
    /\ Unregister("disconnect(*h)", h[1], h[2], {h[2]})

\* disconnect(connection&) on a descriptor of the client: the descriptor after
\* the call is recorded; no signal is involved.
disconnect_descriptor(d) ==
    /\ <<d.callback, d.context>> \in client.inputs
    /\ Call("disconnect(d)", NULL, d, disconnect_conn(d), Void)
    /\ ForgetFire
    /\ UNCHANGED <<active, connections, stack, order, vacated, discd, onceinv,
                   fresh, issued, scoped, built, stale>>

\* ------------------------------------------------------------ specification

\* signal::signal(): active(true), disconnect() on every slot.
Constructed ==
    /\ active = [s \in Signals |-> TRUE]
    /\ connections = [s \in Signals |-> [i \in Slots |-> disconnect_conn(Uninitialized)]]
    /\ stack = <<>>
    /\ overflow = FALSE
    /\ last = [op |-> "construct", sig |-> NULL, a |-> NULL, b |-> NULL, ret |-> Void]
    /\ log = <<>>
    /\ calls = <<>>
    /\ pre = NoPre
    /\ order = [s \in Signals |-> <<>>]
    /\ vacated = [s \in Signals |-> FALSE]
    /\ discd = [s \in Signals |-> [i \in Slots |-> FALSE]]
    /\ onceinv = [s \in Signals |-> [i \in Slots |-> 0]]
    /\ fresh = [s \in Signals |-> <<>>]
    /\ issued = {}
    /\ nops = 0
    /\ scoped = [w \in Wrappers |-> Destroyed]
    /\ stale = {}
    /\ built = [s \in Signals |-> "signal()"]

\* The client works with signal A, any number of calls; B is a second signal
\* that A may forward to.
Init ==
    /\ Constructed
    /\ client = [signals |-> {"A"}, inputs |-> ConnectInputs, limited |-> FALSE]

\* The client works with both signals, MaxOps calls in all.
InitForward ==
    /\ Constructed
    /\ client = [signals |-> Signals, inputs |-> ForwardInputs, limited |-> TRUE]

Next ==
    \/ \E s \in Signals, in \in ConnectInputs : connect(s, in[1], in[2])
    \/ \E s \in Signals, in \in ConnectInputs : once(s, in[1], in[2])
    \/ \E s \in Signals, target \in Signals : forward_to(s, target)
    \/ \E s \in Signals : disconnect_all(s)
    \/ \E s \in Signals, callback \in Callbacks \cup {Forwarder} :
          disconnect_by_callback(s, callback)
    \/ \E s \in Signals, context \in Contexts \cup Signals :
          disconnect_by_context(s, context)
    \/ \E h \in Signals \X Slots : disconnect(h)
    \/ \E s \in Signals : suspend(s)
    \/ \E s \in Signals : resume(s)
    \/ \E s \in Signals, x \in Arguments : fire(s, x)
    \/ fire_skip
    \/ fire_callback
    \/ fire_forward
    \/ fire_return

\* The client binds the connections of signal A to scoped_connection objects.
InitScoped ==
    /\ Constructed
    /\ client = [signals |-> {"A"}, inputs |-> ScopedInputs, limited |-> FALSE]

NextScoped ==
    \/ \E s \in Signals, in \in ScopedInputs : connect(s, in[1], in[2])
    \/ \E s \in Signals, in \in ScopedInputs : once(s, in[1], in[2])
    \/ \E h \in Signals \X Slots : disconnect(h)
    \/ \E s \in Signals, x \in Arguments : fire(s, x)
    \/ fire_skip
    \/ fire_callback
    \/ fire_return
    \/ \E w \in Wrappers : scoped_default(w)
    \/ \E w \in Wrappers, c \in (Signals \X Slots) \cup {NullHandle} : scoped_connection(w, c)
    \/ \E w \in Wrappers : scoped_connection_dtor(w)
    \/ \E w, other \in Wrappers : scoped_move(w, other)
    \/ \E w, other \in Wrappers : scoped_move_assign(w, other)
    \/ \E w \in Wrappers : release(w)

\* The client starts with signal A and makes signal B: by signal(), or as a
\* copy of A, or by moving A; MaxOps calls in all.
InitCopy ==
    /\ active = [s \in Signals |-> s = "A"]
    /\ connections = [s \in Signals |->
          [i \in Slots |-> IF s = "A" THEN disconnect_conn(Uninitialized)
                                     ELSE Uninitialized]]
    /\ stack = <<>>
    /\ overflow = FALSE
    /\ last = [op |-> "construct", sig |-> NULL, a |-> NULL, b |-> NULL, ret |-> Void]
    /\ log = <<>>
    /\ calls = <<>>
    /\ pre = NoPre
    /\ order = [s \in Signals |-> <<>>]
    /\ vacated = [s \in Signals |-> FALSE]
    /\ discd = [s \in Signals |-> [i \in Slots |-> FALSE]]
    /\ onceinv = [s \in Signals |-> [i \in Slots |-> 0]]
    /\ fresh = [s \in Signals |-> <<>>]
    /\ issued = {}
    /\ nops = 0
    /\ scoped = [w \in Wrappers |-> Destroyed]
    /\ stale = {}
    /\ built = [s \in Signals |-> IF s = "A" THEN "signal()" ELSE Unbuilt]
    /\ client = [signals |-> Signals, inputs |-> ForwardInputs, limited |-> TRUE]

NextCopy ==
    \/ \E s \in Signals, in \in ForwardInputs : connect(s, in[1], in[2])
    \/ \E s \in Signals, in \in ForwardInputs : once(s, in[1], in[2])
    \/ \E s \in Signals, target \in Signals : forward_to(s, target)
    \/ \E h \in Signals \X Slots : disconnect(h)
    \/ \E s \in Signals : suspend(s)
    \/ \E s \in Signals : resume(s)
    \/ \E s \in Signals, x \in Arguments : fire(s, x)
    \/ fire_skip
    \/ fire_callback
    \/ fire_forward
    \/ fire_return
    \/ \E d \in Signals : signal_default(d)
    \/ \E d, other \in Signals : signal_copy(d, other)
    \/ \E d, other \in Signals : signal_copy_assign(d, other)
    \/ \E d, other \in Signals : signal_move(d, other)
    \/ \E d, other \in Signals : signal_move_assign(d, other)

\* The client registers and disconnects through the free functions as well.
NextFree ==
    \/ \E s \in Signals, in \in ForwardInputs : connect(s, in[1], in[2])
    \/ \E s \in Signals, in \in ForwardInputs : once(s, in[1], in[2])
    \/ \E h \in Signals \X Slots : disconnect(h)
    \/ \E s \in Signals, x \in Arguments : fire(s, x)
    \/ fire_skip
    \/ fire_callback
    \/ fire_forward
    \/ fire_return
    \/ \E d \in Descriptors, s \in Signals : connect_free(d, s)
    \/ \E d \in Descriptors, s \in Signals : connect_once(d, s)
    \/ \E from, to \in Signals : forward_to_free(from, to)
    \/ \E h \in Signals \X Slots : disconnect_free(h)
    \/ \E d \in Descriptors : disconnect_descriptor(d)

\* The client works with signal A, whose handlers may call it while it fires.
InitReentrant ==
    /\ Constructed
    /\ client = [signals |-> {"A"}, inputs |-> ReentrantInputs, limited |-> TRUE]

NextReentrant ==
    \/ \E s \in Signals, in \in ReentrantInputs : connect(s, in[1], in[2])
    \/ \E s \in Signals, in \in ReentrantInputs : once(s, in[1], in[2])
    \/ \E h \in Signals \X Slots : disconnect(h)
    \/ \E s \in Signals, x \in Arguments : fire(s, x)
    \/ fire_skip
    \/ fire_callback
    \/ fire_return
    \/ fire_reentrant
    \/ \E h \in Signals \X Slots : callback_disconnect(h)
    \/ \E in \in ReentrantInputs : callback_connect(in[1], in[2])
    \/ \E in \in ReentrantInputs : callback_once(in[1], in[2])
    \/ callback_return

Spec == Init /\ [][Next]_vars

SpecReentrant == InitReentrant /\ [][NextReentrant]_vars

SpecFree == InitForward /\ [][NextFree]_vars

SpecCopy == InitCopy /\ [][NextCopy]_vars

SpecScoped == InitScoped /\ [][NextScoped]_vars

SpecForward == InitForward /\ [][Next]_vars

\* ------------------------------------------------------------------ claims

\* The latest client call was fire() and it has returned.
FireDone == last.op = "fire" /\ stack = <<>> /\ ~overflow

\* The step invokes the callback of slot i of signal s.
InvokedNow(s, i) ==
    /\ Len(log') = Len(log) + 1
    /\ log'[Len(log')].sig = s
    /\ log'[Len(log')].slot = i

\* The entries of the log made by the fire() call at the given path.
Entries(path) == SelectSeq(log, LAMBDA e : e.path = path)

\* Number of entries of the log for slot i of signal s.
Count(s, i) == Cardinality({k \in 1 .. Len(log) : log[k].sig = s /\ log[k].slot = i})

\* C1: on a fresh signal the first N connect calls (nothing else called on it)
\* each return a handle, all distinct; the (N+1)-th returns null and
\* connection_count() is then N = max_connections().
C1_FirstConnects ==
    \A s \in Signals :
        fresh[s] # Tainted =>
            /\ \A k \in 1 .. Len(fresh[s]) :
                  IF k <= CPP_CONNECTIONS_MAX_CONNECTIONS
                  THEN /\ fresh[s][k] \in {s} \X Slots
                       /\ \A j \in 1 .. (k - 1) : fresh[s][j] # fresh[s][k]
                  ELSE fresh[s][k] = NullHandle
            /\ Len(fresh[s]) = CPP_CONNECTIONS_MAX_CONNECTIONS + 1 =>
                  /\ connection_count(connections[s]) = CPP_CONNECTIONS_MAX_CONNECTIONS
                  /\ connection_count(connections[s]) = max_connections

\* C1: the (N+1)-th connect on a fresh signal has returned.
C1_Witness ==
    /\ fresh["A"] # Tainted
    /\ Len(fresh["A"]) = CPP_CONNECTIONS_MAX_CONNECTIONS + 1
    /\ last.op = "connect"

\* C2: a callback is invoked only for a registration on which disconnect() has
\* not run, and it is the callback stored for that registration.
C2_NoInvokeAfterDisconnect ==
    [][\A s \in Signals, i \in Slots :
          InvokedNow(s, i) =>
              /\ ~discd[s][i]
              /\ log'[Len(log')].callback = connections[s][i].callback]_vars

\* C2: a fire() has run callbacks while a slot held a registration that the
\* client had disconnected.
C2_Witness ==
    /\ FireDone
    /\ log # <<>>
    /\ \E i \in Slots :
          /\ discd["A"][i]
          /\ ~pre.connections["A"][i].connected
          /\ ~pre.connections["A"][i].once
          /\ pre.connections["A"][i].callback \in Callbacks

\* The slots of signal s that fire() invokes, given the slot array cs.
Invocable(cs) == {i \in Slots : cs[i].connected /\ cs[i].callback # NULL}

\* The one-shot registrations of signal s that the latest fire() found connected.
OnceBefore(s) == {i \in Invocable(pre.connections[s]) : pre.connections[s][i].once}

\* C3: a one-shot registration is invoked at most once in its life, is no
\* longer connected once invoked, and a fire() of an active signal that
\* returns has invoked each one-shot registration it found exactly once and
\* lowered connection_count() by one for each of them.
C3_OnceExactlyOnce ==
    /\ \A s \in Signals, i \in Slots :
          /\ onceinv[s][i] <= 1
          /\ connections[s][i].connected /\ connections[s][i].once => onceinv[s][i] = 0
    /\ FireDone /\ pre.active[last.sig] =>
          LET s == last.sig IN
          /\ \A i \in OnceBefore(s) :
                /\ Count(s, i) = 1
                /\ onceinv[s][i] = 1
                /\ ~connections[s][i].connected
          /\ connection_count(connections[s]) =
                connection_count(pre.connections[s]) - Cardinality(OnceBefore(s))

\* C3: a fire() has returned that found a one-shot registration already
\* consumed by an earlier fire(), next to a connected persistent one.
C3_Witness ==
    /\ FireDone
    /\ pre.active["A"]
    /\ log # <<>>
    /\ \E i \in Slots :
          /\ onceinv["A"][i] = 1
          /\ pre.connections["A"][i].once
          /\ ~pre.connections["A"][i].connected
          /\ Count("A", i) = 0

\* C4: suspend() clears and only resume() sets the active flag; a callback is
\* invoked only by a fire() on a signal whose flag is set; a fire() on a
\* suspended signal returns at once with nothing invoked and nothing changed;
\* a fire() on an active signal that returns has invoked every connected slot
\* that has a callback.
C4_SuspendResume ==
    [][/\ last'.op = "suspend" => ~active'[last'.sig]
       /\ last'.op = "resume" => active'[last'.sig]
       /\ \A s \in Signals :
             ~active[s] /\ active'[s] => last'.op = "resume" /\ last'.sig = s
       /\ \A s \in Signals, i \in Slots : InvokedNow(s, i) => active[s]
       /\ last'.op = "fire" /\ pre' # NoPre /\ ~pre'.active[last'.sig] =>
             /\ stack' = <<>>
             /\ log' = <<>>
             /\ connections' = pre'.connections
             /\ active' = pre'.active
       /\ FireDone' /\ pre'.active[last'.sig] =>
             \A i \in Invocable(pre'.connections[last'.sig]) :
                \E k \in 1 .. Len(log') :
                   /\ log'[k].sig = last'.sig
                   /\ log'[k].slot = i
                   /\ log'[k].path = <<>>]_vars

\* C4: a fire() on a suspended signal that holds a connected callback.
C4_Witness ==
    /\ last.op = "fire"
    /\ pre # NoPre
    /\ ~pre.active["A"]
    /\ \E i \in Slots :
          /\ pre.connections["A"][i].connected
          /\ pre.connections["A"][i].callback \in Callbacks

\* The slots of the log entries made by the client's own fire() call.
TopSlots == [k \in 1 .. Len(Entries(<<>>)) |-> Entries(<<>>)[k].slot]

\* The registration order of the slots fire() found invocable on signal s.
RegistrationOrder(s) ==
    SelectSeq(pre.order[s], LAMBDA i : i \in Invocable(pre.connections[s]))

\* C5: within one fire() call the slots are invoked in strictly ascending
\* index order, each with the callback and context stored in the slot and
\* with the fired arguments; when no slot of the signal was ever vacated
\* before the call, that order is the order of registration.
C5_SlotOrder ==
    /\ \A j, k \in 1 .. Len(log) :
          j < k /\ log[j].path = log[k].path => log[j].slot < log[k].slot
    /\ \A k \in 1 .. Len(log) :
          /\ pre.connections[log[k].sig][log[k].slot].connected
          /\ log[k].callback = pre.connections[log[k].sig][log[k].slot].callback
          /\ log[k].context = pre.connections[log[k].sig][log[k].slot].context
          /\ log[k].args = last.a
    /\ FireDone /\ pre.active[last.sig] /\ ~pre.vacated[last.sig] =>
          TopSlots = RegistrationOrder(last.sig)

\* C5: a fire() has returned that invoked two callbacks of a signal none of
\* whose slots had been vacated.
C5_Witness ==
    /\ FireDone
    /\ pre.active["A"]
    /\ ~pre.vacated["A"]
    /\ Len(TopSlots) >= 2
    /\ log[1].context # log[2].context

\* C6: a fire() of an active signal that returns has invoked the callbacks in
\* the order in which they were registered, whatever happened before.
C6_RegistrationOrder ==
    FireDone /\ pre.active[last.sig] => TopSlots = RegistrationOrder(last.sig)

\* The connected forwarding connections from signal a to signal b that the
\* latest fire() found.
Forwarders(a, b) ==
    {i \in Slots : /\ pre.connections[a][i].connected
                   /\ pre.connections[a][i].callback = Forwarder
                   /\ pre.connections[a][i].context = b}

\* The log entries for slot j of signal b.
EntriesOf(b, j) == {k \in 1 .. Len(log) : log[k].sig = b /\ log[k].slot = j}

\* The latest fire() invoked slot j of signal b exactly once, with its stored
\* context and the arguments the client fired with.
InvokedOnceWith(b, j) ==
    /\ Cardinality(EntriesOf(b, j)) = 1
    /\ \A k \in EntriesOf(b, j) :
          /\ log[k].args = last.a
          /\ log[k].callback = pre.connections[b][j].callback
          /\ log[k].context = pre.connections[b][j].context

Free(cs) == {i \in Slots : ~cs[i].connected}

\* The lowest index in a non-empty set of slots.
Lowest(S) == CHOOSE i \in S : \A j \in S : i <= j

\* Every signal but s keeps its slots.
OthersKept(s) == \A o \in Signals \ {s} : connections'[o] = connections[o]

\* C8: connect and once, when a slot is free, write the free slot of lowest
\* index: connected = true, the given callback and context, once = false for
\* connect and true for once; they return the handle of that slot and leave
\* every other slot and the active flags as they were.
C8_Register ==
    [][last'.op \in {"connect", "once"} /\ Free(connections[last'.sig]) # {} =>
          LET s == last'.sig
              i == Lowest(Free(connections[s]))
          IN  /\ connections'[s][i] =
                    [connected |-> TRUE, once |-> (last'.op = "once"),
                     callback |-> last'.a, context |-> last'.b]
              /\ last'.ret = <<s, i>>
              /\ \A j \in Slots \ {i} : connections'[s][j] = connections[s][j]
              /\ OthersKept(s)
              /\ active' = active]_vars

\* C8: once() has just filled slot 0 while a higher slot was connected.
C8_Witness ==
    /\ last.op = "once"
    /\ last.ret = <<"A", 0>>
    /\ connections["A"][0].once
    /\ connections["A"][0].callback = last.a
    /\ \E j \in Slots : j > 0 /\ connections["A"][j].connected

\* C9: connect, once and forward_to return null exactly when every slot is
\* connected, and then change no slot and no active flag; with a free slot
\* (for one, after a disconnect) they return a handle.
C9_Capacity ==
    [][last'.op \in {"connect", "once", "forward_to"} =>
          IF Free(connections[last'.sig]) = {}
          THEN /\ last'.ret = NullHandle
               /\ connections' = connections
               /\ active' = active
          ELSE /\ last'.ret \in {last'.sig} \X Slots
               /\ connections'[last'.sig][last'.ret[2]].connected
               /\ connection_count(connections'[last'.sig]) =
                     connection_count(connections[last'.sig]) + 1]_vars

\* C9: a registration has just been refused for lack of a free slot.
C9_Witness ==
    /\ last.op \in {"connect", "once", "forward_to"}
    /\ last.ret = NullHandle
    /\ connection_count(connections["A"]) = max_connections

\* C10: disconnect_by_callback(f) clears connected in the connected slots
\* whose callback is f and changes nothing else: no other field, no other
\* slot, no other signal, no active flag.
C10_ByCallback ==
    [][last'.op = "disconnect_by_callback" =>
          LET s == last'.sig IN
          /\ \A i \in Slots :
                connections'[s][i] =
                   IF connections[s][i].connected /\ connections[s][i].callback = last'.a
                   THEN [connections[s][i] EXCEPT !.connected = FALSE]
                   ELSE connections[s][i]
          /\ OthersKept(s)
          /\ active' = active]_vars

\* C10: disconnect_by_callback has just been called with the callback of one
\* slot, now disconnected, while another slot stays connected with another
\* callback.
C10_Witness ==
    /\ last.op = "disconnect_by_callback"
    /\ \E i, j \in Slots :
          /\ connections["A"][i].callback = last.a
          /\ ~connections["A"][i].connected
          /\ discd["A"][i]
          /\ order["A"] = <<j>>
          /\ connections["A"][j].connected
          /\ connections["A"][j].callback # last.a

\* C11: disconnect_by_context(c) clears connected in the connected slots whose
\* stored context is c, a forwarding connection to the signal c among them,
\* and changes nothing else: no other field, no other slot, no other signal,
\* no active flag.
C11_ByContext ==
    [][last'.op = "disconnect_by_context" =>
          LET s == last'.sig IN
          /\ \A i \in Slots :
                connections'[s][i] =
                   IF connections[s][i].connected /\ connections[s][i].context = last'.a
                   THEN [connections[s][i] EXCEPT !.connected = FALSE]
                   ELSE connections[s][i]
          /\ OthersKept(s)
          /\ active' = active]_vars

\* C11: disconnect_by_context has just been called with the signal that one
\* slot forwarded to, now disconnected, while a forwarding connection to
\* another signal stays connected.
C11_Witness ==
    /\ last.op = "disconnect_by_context"
    /\ last.a \in Signals
    /\ \E i, j \in Slots :
          /\ connections["A"][i].callback = Forwarder
          /\ connections["A"][i].context = last.a
          /\ ~connections["A"][i].connected
          /\ discd["A"][i]
          /\ order["A"] = <<j>>
          /\ connections["A"][j].callback = Forwarder
          /\ connections["A"][j].context # last.a

\* C12: disconnect_all() leaves connection_count() at 0 and every active flag
\* as it was, and a fire() that finds no slot connected invokes no callback.
C12_DisconnectAll ==
    [][/\ last'.op = "disconnect_all" =>
             /\ connection_count(connections'[last'.sig]) = 0
             /\ active' = active
             /\ OthersKept(last'.sig)
       /\ last.op = "disconnect_all" /\ last'.op = "fire" /\ last'.sig = last.sig =>
             connection_count(pre'.connections[last'.sig]) = 0
       /\ last'.op = "fire" /\ pre' # NoPre
            /\ connection_count(pre'.connections[last'.sig]) = 0 => log' = <<>>]_vars

\* C12: a fire() of an active signal has returned with nothing invoked, every
\* slot of the signal holding a registration with a callback that was
\* deactivated.
C12_Witness ==
    /\ FireDone
    /\ pre.active["A"]
    /\ log = <<>>
    /\ connection_count(pre.connections["A"]) = 0
    /\ \A i \in Slots :
          /\ discd["A"][i]
          /\ pre.connections["A"][i].callback \in Callbacks

\* The connection the pointer h denotes is connected.
Connected(h) == h # NullHandle /\ connections[h[1]][h[2]].connected

\* The connection h denotes, if connected, is connected after the step.
StaysConnected(h) == Connected(h) => connections'[h[1]][h[2]].connected

\* The step changes no slot but the one h denotes.
OnlySlot(h) ==
    \A s \in Signals, i \in Slots :
        <<s, i>> # h => connections'[s][i] = connections[s][i]

\* The step clears connected in the slot h denotes and changes no other field
\* and no other slot.
Deactivates(h) ==
    /\ connections'[h[1]][h[2]] = [connections[h[1]][h[2]] EXCEPT !.connected = FALSE]
    /\ discd'[h[1]][h[2]]
    /\ OnlySlot(h)

\* C13: destroying a scoped_connection whose connection is connected clears
\* that connection's connected flag and nothing else, and the callback of a
\* registration so deactivated is not invoked by any later fire(); destroying
\* an empty one, or one whose connection is disconnected, changes no slot.
C13_ScopedDestructor ==
    [][/\ last'.op = "~scoped_connection" =>
             LET h == scoped[last'.a].conn IN
             /\ IF Connected(h) THEN Deactivates(h) ELSE connections' = connections
             /\ active' = active
             /\ ~scoped'[last'.a].live
       /\ \A s \in Signals, i \in Slots : InvokedNow(s, i) => ~discd[s][i]]_vars

\* C13: a scoped_connection holding a connected connection has just been
\* destroyed, while another connection of the signal stays connected.
C13_Witness ==
    /\ last.op = "~scoped_connection"
    /\ last.sig = "A"
    /\ ~scoped[last.a].live
    /\ ~Connected(last.b)
    /\ discd[last.b[1]][last.b[2]]
    /\ connection_count(connections["A"]) > 0

\* C14: release() returns the pointer the scoped_connection held (null if
\* none), leaves it empty and changes no slot; destroying an empty
\* scoped_connection changes no slot, in particular when release() has just
\* emptied it; and a fire() of an active signal that returns has invoked
\* every connected slot with a callback, a released one like any other.
C14_Release ==
    [][/\ last'.op = "release" =>
             /\ last'.ret = scoped[last'.a].conn
             /\ scoped' = [scoped EXCEPT ![last'.a].conn = NullHandle]
             /\ scoped'[last'.a].live
             /\ connections' = connections
             /\ active' = active
       /\ last'.op = "~scoped_connection" /\ scoped[last'.a].conn = NullHandle =>
             connections' = connections
       /\ last.op = "release" /\ last'.op = "~scoped_connection" /\ last'.a = last.a =>
             /\ connections' = connections
             /\ StaysConnected(last.ret)
       /\ FireDone' /\ pre'.active[last'.sig] =>
             \A i \in Invocable(pre'.connections[last'.sig]) :
                \E k \in 1 .. Len(log') : log'[k].sig = last'.sig /\ log'[k].slot = i]_vars

\* C14: release() has just returned the pointer to a connected connection.
C14_Witness ==
    /\ last.op = "release"
    /\ Connected(last.ret)
    /\ scoped[last.a] = [live |-> TRUE, conn |-> NullHandle]

\* C15: the move constructor gives the new scoped_connection the pointer of
\* the source and leaves the source empty, changing no slot; the move
\* assignment does the same after deactivating the connection the
\* destination held if it is connected, and changes no other slot, so the
\* transferred connection is not disconnected; an assignment of a
\* scoped_connection to itself changes nothing.
C15_ScopedMove ==
    [][/\ last'.op = "scoped_connection(&&)" =>
             /\ scoped'[last'.a] = [live |-> TRUE, conn |-> scoped[last'.b].conn]
             /\ scoped'[last'.b] = [live |-> TRUE, conn |-> NullHandle]
             /\ connections' = connections
       /\ last'.op = "operator=(&&)" /\ last'.a # last'.b =>
             LET held == scoped[last'.a].conn
                 moved == scoped[last'.b].conn
             IN  /\ scoped'[last'.a] = [live |-> TRUE, conn |-> moved]
                 /\ scoped'[last'.b] = [live |-> TRUE, conn |-> NullHandle]
                 /\ IF Connected(held) THEN Deactivates(held) ELSE connections' = connections
                 /\ StaysConnected(moved)
       /\ last'.op = "operator=(&&)" /\ last'.a = last'.b =>
             /\ scoped' = scoped
             /\ connections' = connections
       /\ last'.op \in {"scoped_connection(&&)", "operator=(&&)"} =>
             /\ active' = active
             /\ \A w \in Wrappers \ {last'.a, last'.b} : scoped'[w] = scoped[w]]_vars

\* C15: a move assignment has just deactivated the connection the destination
\* held and handed it the connected connection of the source.
C15_Witness ==
    /\ last.op = "operator=(&&)"
    /\ last.sig = "A"
    /\ last.a # last.b
    /\ Connected(scoped[last.a].conn)
    /\ scoped[last.b] = [live |-> TRUE, conn |-> NullHandle]
    /\ \E i \in Slots : discd["A"][i] /\ <<"A", i>> # scoped[last.a].conn

\* C16: no two live scoped_connection objects hold the same connection.
C16_UniqueOwner ==
    \A v, w \in Wrappers :
        (v # w /\ scoped[v].live /\ scoped[w].live /\ scoped[v].conn # NullHandle)
        => scoped[v].conn # scoped[w].conn

\* C16: a scoped_connection has just been moved from, and two live ones hold
\* between them one connection.
C16_Witness ==
    /\ last.op \in {"scoped_connection(&&)", "operator=(&&)"}
    /\ last.a # last.b
    /\ scoped[last.a].live /\ scoped[last.b].live
    /\ scoped[last.a].conn # NullHandle
    /\ scoped[last.b].conn = NullHandle

CopyOps == {"signal(const signal&)", "operator=(const signal&)"}

MoveOps == {"signal(signal&&)", "operator=(signal&&)"}

\* The operations on one signal that C17 names.
OwnOps == {"connect", "once", "disconnect", "suspend", "resume", "fire"}

\* One of the signals s and o was last written as a copy of the other.
CopyPair(s, o) == s # o /\ "copy" \in {built[s], built[o]}

\* The step leaves the slots and the active flag of signal o as they were.
Kept(o) == connections'[o] = connections[o] /\ active'[o] = active[o]

\* The step copies signal other to signal d: d takes the flag and every slot
\* of other, which keeps them.
CopyStep ==
    last'.op \in CopyOps =>
        LET d == last'.sig
            other == last'.a
        IN  /\ active'[d] = active[other]
            /\ \A i \in Slots : connections'[d][i] = connections[other][i]
            /\ Kept(other)

\* The step is one of a connect, once, disconnect, suspend or resume on signal
\* s, which is one of a pair of signals of which one is a copy of the other, o.
OwnStep(s, o) ==
    /\ last'.op \in OwnOps \ {"fire"}
    /\ last'.sig = s
    /\ CopyPair(s, o)

\* The latest fire() was on signal s, one of a pair of signals of which one
\* is a copy of the other, o.
FiredCopy(s, o) ==
    /\ last.op = "fire"
    /\ last.sig = s
    /\ CopyPair(s, o)

\* The latest fire() has left signal o as it found it.
Untouched(o) == connections[o] = pre.connections[o] /\ active[o] = pre.active[o]

\* C17 as claimed: a copy gives the destination the flag and slots of the
\* source, and afterwards no connect, once, disconnect, suspend or resume on
\* one of the two signals changes the other, and a fire() on one that has
\* returned has not changed the other.
C17_AsClaimed ==
    [][/\ CopyStep
       /\ \A s, o \in Signals :
             /\ OwnStep(s, o) => Kept(o)
             /\ FiredCopy(s, o)' /\ FireDone' => Untouched(o)']_vars

\* C17 amended: a copy gives the destination the flag and slots of the
\* source, and afterwards no connect, once, disconnect, suspend or resume on
\* one of the two signals changes the other, and no step of a fire() on one
\* changes the other unless the fired signal held a connected forwarding
\* connection to the other when the fire() began.
C17_Copy ==
    [][/\ CopyStep
       /\ \A s, o \in Signals :
             /\ OwnStep(s, o) => Kept(o)
             /\ FiredCopy(s, o)' /\ Forwarders(s, o)' = {} =>
                   Kept(o) /\ Untouched(o)']_vars

\* C17: a fire() of a signal has consumed a one-shot connection of which the
\* other signal, its copy, still holds the connected duplicate.
C17_Witness ==
    /\ FireDone
    /\ \E s, o \in Signals :
          /\ last.sig = s
          /\ CopyPair(s, o)
          /\ Forwarders(s, o) = {}
          /\ \E i \in Slots :
                /\ Count(s, i) = 1
                /\ pre.connections[s][i] = pre.connections[o][i]
                /\ pre.connections[s][i].once
                /\ ~connections[s][i].connected
                /\ connections[o][i] = pre.connections[o][i]
                /\ connections[o][i].connected

\* C18: moving signal other into a different signal d gives d the flag and
\* every slot other had, clears the flag of other and leaves its slots as
\* they were, so that connection_count() of other is unchanged; a callback is
\* invoked only on a signal whose flag is set, and the flag of a signal is set
\* again only by resume() on it or by an assignment or construction that
\* overwrites it.
C18_Move ==
    [][/\ last'.op \in MoveOps /\ last'.sig # last'.a =>
             LET d == last'.sig
                 other == last'.a
             IN  /\ active'[d] = active[other]
                 /\ \A i \in Slots : connections'[d][i] = connections[other][i]
                 /\ ~active'[other]
                 /\ connections'[other] = connections[other]
                 /\ connection_count(connections'[other]) =
                       connection_count(connections[other])
       /\ \A s \in Signals, i \in Slots : InvokedNow(s, i) => active[s]
       /\ \A s \in Signals :
             ~active[s] /\ active'[s] =>
                 /\ last'.sig = s
                 /\ last'.op \in {"resume", "signal()"} \cup CopyOps \cup MoveOps
       /\ last'.op = "fire" /\ ~pre'.active[last'.sig] => log' = <<>>]_vars

\* C18: a fire() of a signal that was moved from has invoked nothing, while
\* the signal holds a connected callback and the destination of the move,
\* which holds the same, is active.
C18_Witness ==
    /\ last.op = "fire"
    /\ log = <<>>
    /\ \E s, d \in Signals :
          /\ last.sig = s
          /\ built[d] = "move"
          /\ d # s
          /\ ~active[s]
          /\ active[d]
          /\ connections[d] = connections[s]
          /\ Invocable(connections[s]) # {}

\* C19: every fire() call returns: the fire() calls nested in it through
\* forwarding connections never include a second call on a signal whose scan
\* is still in progress (with the slots as they are, that call would nest
\* the same call again without end), and never exceed the stack.
C19_FireTerminates ==
    /\ ~overflow
    /\ \A j, k \in 1 .. Len(stack) : j < k => stack[j].sig # stack[k].sig

\* C20: every connected slot holds a callback that is not null.
C20_CallbackNonNull ==
    \A s \in Signals, i \in Slots :
        connections[s][i].connected => connections[s][i].callback # NULL

\* The slots of signal s holding a forwarding connection that fire() invokes.
Forwarding(cs) == {i \in Invocable(cs) : cs[i].callback = Forwarder}

\* The one-shot slots of signal s that the latest fire() has invoked so far.
OnceInvoked(s) == {i \in Slots : Count(s, i) >= 1 /\ pre.connections[s][i].once}

\* C27: a fire() of a signal whose connected callbacks are all client
\* handlers (none is the forwarding lambda, which calls fire()) changes
\* nothing but connected, set to false, of the one-shot slots it invoked:
\* every other slot is as it was, so every persistent connection is still
\* connected with its callback and context; the active flags are as they
\* were; connection_count() is lower by the number of one-shots invoked.
C27_PlainFire ==
    last.op = "fire" /\ Forwarding(pre.connections[last.sig]) = {} =>
        LET s == last.sig IN
        /\ \A i \in Slots :
              connections[s][i] =
                  IF i \in OnceInvoked(s)
                  THEN disconnect_conn(pre.connections[s][i])
                  ELSE pre.connections[s][i]
        /\ \A i \in Slots :
              pre.connections[s][i].connected /\ ~pre.connections[s][i].once =>
                  /\ connections[s][i].connected
                  /\ connections[s][i].callback = pre.connections[s][i].callback
                  /\ connections[s][i].context = pre.connections[s][i].context
        /\ active = pre.active
        /\ connection_count(connections[s]) =
              connection_count(pre.connections[s]) - Cardinality(OnceInvoked(s))

\* C27: a fire() has returned that invoked a persistent connection and a
\* one-shot connection, both client handlers.
C27_Witness ==
    /\ FireDone
    /\ Forwarding(pre.connections["A"]) = {}
    /\ \E i, j \in Slots :
          /\ Count("A", i) = 1
          /\ Count("A", j) = 1
          /\ ~pre.connections["A"][i].once
          /\ pre.connections["A"][j].once
          /\ connections["A"][i].connected
          /\ ~connections["A"][j].connected

\* C21: a suspend(), a resume() and a fire() on a suspended signal leave
\* every slot of every signal as it was (connected, once, callback, context),
\* and the suspended fire() invokes nothing, so a one-shot connection is
\* still connected and not yet invoked after it; a fire() on an active
\* signal, as the first one after resume() is, that returns has invoked
\* every one-shot connection with a callback that it found connected.
C21_SuspendedFire ==
    [][/\ last'.op \in {"suspend", "resume"} => connections' = connections
       /\ \A s \in Signals :
             stack = <<>> /\ last'.op = "fire" /\ last'.sig = s
             /\ ~active[s] =>
                 /\ connections' = connections
                 /\ onceinv' = onceinv
                 /\ active' = active
                 /\ log' = <<>>
                 /\ stack' = <<>>
       /\ \A s \in Signals :
             FireDone' /\ last'.sig = s /\ pre'.active[s] =>
                 \A i \in OnceBefore(s)' : Count(s, i)' >= 1]_vars

\* C21: a fire() on a suspended signal has returned and the one-shot
\* connection the signal holds is still connected and was never invoked.
C21_Witness ==
    /\ FireDone
    /\ ~pre.active["A"]
    /\ ~active["A"]
    /\ last.sig = "A"
    /\ \E i \in Slots :
          /\ connections["A"][i].connected
          /\ connections["A"][i].once
          /\ connections["A"][i].callback \in Callbacks
          /\ onceinv["A"][i] = 0

\* C22: each free function does to the signal, and returns, what the member
\* function it wraps does with the descriptor's callback and context:
\* connect(d, s) as s->connect, connect_once(d, s) as s->once, forward_to(a, b)
\* as a->forward_to(b), disconnect(c) as c.disconnect(); the registration
\* made is connected, one-shot for connect_once and persistent for connect,
\* whatever the descriptor's own connected and once flags are.
C22_FreeFunctions ==
    [][/\ \A s \in Signals, d \in Descriptors :
             last'.op = "connect(d, s)" /\ last'.sig = s /\ last'.a = d =>
                 LET r == connect_slots(connections[s], d.callback, d.context) IN
                 /\ connections' = [connections EXCEPT ![s] = r.cs]
                 /\ last'.ret = Handle(s, r.slot)
                 /\ active' = active
                 /\ r.slot # NoSlot =>
                       connections'[s][r.slot] = Populate(d.callback, d.context, FALSE)
       /\ \A s \in Signals, d \in Descriptors :
             last'.op = "connect_once(d, s)" /\ last'.sig = s /\ last'.a = d =>
                 LET r == once_slots(connections[s], d.callback, d.context) IN
                 /\ connections' = [connections EXCEPT ![s] = r.cs]
                 /\ last'.ret = Handle(s, r.slot)
                 /\ active' = active
                 /\ r.slot # NoSlot =>
                       connections'[s][r.slot] = Populate(d.callback, d.context, TRUE)
       /\ \A a, b \in Signals :
             last'.op = "forward_to(from, to)" /\ last'.sig = a /\ last'.b = b =>
                 LET r == forward_to_slots(connections[a], b) IN
                 /\ connections' = [connections EXCEPT ![a] = r.cs]
                 /\ last'.ret = Handle(a, r.slot)
                 /\ active' = active
       /\ \A h \in Signals \X Slots :
             last'.op = "disconnect(*h)" /\ last'.sig = h[1] /\ last'.a = h[2] =>
                 /\ connections' =
                       [connections EXCEPT ![h[1]][h[2]] = disconnect_conn(@)]
                 /\ active' = active
       /\ \A d \in Descriptors :
             last'.op = "disconnect(d)" /\ last'.a = d =>
                 /\ last'.b = disconnect_conn(d)
                 /\ connections' = connections
                 /\ active' = active]_vars

\* C22: connect(d, s) with a descriptor flagged disconnected and one-shot
\* has made a connected persistent registration.
C22_Witness ==
    /\ last.op = "connect(d, s)"
    /\ last.a.once
    /\ ~last.a.connected
    /\ last.ret # NullHandle
    /\ connections[last.ret[1]][last.ret[2]].connected
    /\ ~connections[last.ret[1]][last.ret[2]].once
    /\ connections[last.ret[1]][last.ret[2]].callback = last.a.callback

\* C23: a handle denotes a slot, not a registration.  disconnect() through
\* a handle clears connected of whatever registration the slot holds at that
\* moment; destroying a scoped_connection whose slot was disconnected and
\* then written by a later connect/once while it held the pointer clears
\* connected of that later registration, if it is connected.
C23_HandleIsSlot ==
    [][/\ \A h \in Signals \X Slots :
             last'.op = "disconnect" /\ last'.sig = h[1] /\ last'.a = h[2] =>
                 /\ ~connections'[h[1]][h[2]].connected
                 /\ Connected(h) => Deactivates(h)
       /\ \A w \in Wrappers :
             /\ w \in stale
             /\ scoped[w].live
             /\ last'.op = "~scoped_connection"
             /\ last'.a = w
             /\ Connected(scoped[w].conn)
             => Deactivates(scoped[w].conn)]_vars

\* C23: a scoped_connection has been destroyed that held the pointer to a
\* slot since before the registration now in the slot was made; that
\* registration, a one-shot never invoked, is disconnected.
C23_Witness ==
    /\ last.op = "~scoped_connection"
    /\ last.a \in stale
    /\ last.b # NullHandle
    /\ last.sig = last.b[1]
    /\ ~connections[last.b[1]][last.b[2]].connected
    /\ connections[last.b[1]][last.b[2]].once
    /\ discd[last.b[1]][last.b[2]]
    /\ onceinv[last.b[1]][last.b[2]] = 0

\* The step is one of fire() itself: no call of the client or of a handler.
FireStep == last' = last /\ calls' = calls

\* C24: fire() deactivates a one-shot registration only once it has invoked
\* the callback of that registration.
C24_OnceAfterInvoke ==
    [][\A s \in Signals, i \in Slots :
          /\ FireStep
          /\ connections[s][i].connected
          /\ connections[s][i].once
          /\ ~connections'[s][i].connected
          => onceinv'[s][i] >= 1]_vars

\* The calls of handlers, by position in calls, that disconnected a connected
\* slot of index below (Earlier), or above (Later), the slot of the handler.
Disconnects == {k \in 1 .. Len(calls) : calls[k].op = "disconnect" /\ calls[k].was}
Earlier == {k \in Disconnects : calls[k].slot < calls[k].by}
Later == {k \in Disconnects : calls[k].slot > calls[k].by}

\* The slot call k is about was written by a registration of a handler
\* before call k (Before) or after it (After).
RegisteredBefore(k) ==
    \E m \in 1 .. (k - 1) :
        /\ calls[m].op \in {"connect", "once"}
        /\ calls[m].sig = calls[k].sig
        /\ calls[m].slot = calls[k].slot
RegisteredAfter(k) ==
    \E m \in (k + 1) .. Len(calls) :
        /\ calls[m].op \in {"connect", "once"}
        /\ calls[m].sig = calls[k].sig
        /\ calls[m].slot = calls[k].slot

\* Slot i of signal s was invoked among the first n invocations of the fire().
InvokedBy(s, i, n) == \E e \in 1 .. n : log[e].sig = s /\ log[e].slot = i
\* Slot i of signal s was invoked after the first n invocations.
InvokedAfter(s, i, n) ==
    \E e \in (n + 1) .. Len(log) : log[e].sig = s /\ log[e].slot = i

\* Of the slots disconnected by the handler of a lower slot, none is invoked
\* in the rest of the fire() (a later registration in the slot set aside).
LaterSkipped ==
    \A k \in Later :
        ~RegisteredAfter(k) => ~InvokedAfter(calls[k].sig, calls[k].slot, calls[k].at)

\* The registration call k disconnected was in its slot, with a callback,
\* when the fire() began.
Preexisting(k) ==
    /\ pre.connections[calls[k].sig][calls[k].slot].connected
    /\ pre.connections[calls[k].sig][calls[k].slot].callback # NULL
    /\ ~RegisteredBefore(k)

\* Every slot disconnected by the handler of a higher slot was invoked in the
\* fire() before that.
EarlierInvokedAll ==
    \A k \in Earlier : InvokedBy(calls[k].sig, calls[k].slot, calls[k].at)

\* The same of the registrations that were in their slots when the fire() began.
EarlierInvoked ==
    \A k \in Earlier :
        Preexisting(k) => InvokedBy(calls[k].sig, calls[k].slot, calls[k].at)

\* A registration on which disconnect() has run is never invoked.
NeverAgain == \A s \in Signals, j \in Slots : InvokedNow(s, j) => ~discd[s][j]

\* C25 as claimed: when the handler at slot i disconnects a connected slot j
\* during a fire(), slot j is not invoked in the rest of that fire() if
\* j > i and has been invoked in that fire() if j < i, and the registration
\* is invoked by no later fire().
C25_AsClaimed ==
    [][/\ LaterSkipped'
       /\ EarlierInvokedAll'
       /\ NeverAgain]_vars

\* C25: when the handler at slot i disconnects a connected slot j during a
\* fire(), slot j is not invoked in the rest of that fire() if j > i; if
\* j < i and the registration was in slot j, with a callback, when the fire()
\* began, slot j has been invoked in that fire(); in both cases the
\* registration is invoked by no later fire().
C25_DisconnectInFire ==
    [][/\ LaterSkipped'
       /\ EarlierInvoked'
       /\ NeverAgain]_vars

\* C25: a fire() has returned in which the handler of slot i disconnected
\* the connected slot j < i, invoked before it in that fire().
C25_Witness ==
    /\ FireDone
    /\ \E k \in Earlier :
          /\ Preexisting(k)
          /\ Count(calls[k].sig, calls[k].slot) = 1
          /\ ~connections[calls[k].sig][calls[k].slot].connected

\* The calls of handlers, by position in calls, that made a registration.
Registrations ==
    {k \in 1 .. Len(calls) : calls[k].op \in {"connect", "once"} /\ calls[k].slot # NoSlot}

\* A handler called disconnect() on, or registered in, the slot of call k
\* after call k.
TouchedAfter(k) ==
    \E m \in (k + 1) .. Len(calls) :
        calls[m].sig = calls[k].sig /\ calls[m].slot = calls[k].slot

\* C26: a registration made by the handler of slot i during a fire() (and
\* left alone by the handlers afterwards) has been invoked when that fire()
\* returns if and only if it landed in a slot above i; one that landed in a
\* slot at or below i is then still connected, for the next fire() to invoke.
C26_RegisterInFire ==
    FireDone =>
        \A k \in Registrations :
            ~TouchedAfter(k) =>
                /\ calls[k].slot > calls[k].by <=>
                      InvokedAfter(calls[k].sig, calls[k].slot, calls[k].at)
                /\ calls[k].slot <= calls[k].by =>
                      connections[calls[k].sig][calls[k].slot].connected

\* C26 but for a one-shot registration that lands in the slot of the running
\* handler itself.
C26_ButOwnSlot ==
    FireDone =>
        \A k \in Registrations :
            ~TouchedAfter(k) =>
                /\ calls[k].slot > calls[k].by <=>
                      InvokedAfter(calls[k].sig, calls[k].slot, calls[k].at)
                /\ calls[k].slot <= calls[k].by
                   /\ ~(calls[k].slot = calls[k].by /\ calls[k].op = "once") =>
                      connections[calls[k].sig][calls[k].slot].connected

====
